---- MODULE Spec2Model ----
(***************************************************************************)
(* Model of the GPU pipelining visualisation (src/src/App.tsx, the App and *)
(* FlowVisualization components that import src/src/utils.ts, and          *)
(* src/src/utils.ts).                                                      *)
(*                                                                         *)
(* JavaScript arrays are modelled as functions over 0..n-1, so that the    *)
(* indices of the model are the indices of the source.  A nullable field   *)
(* is modelled as a tuple: <<>> is null and <<x>> is the value x.  Numbers *)
(* are integers: every text of the input set Texts denotes an integer or   *)
(* no number at all.                                                       *)
(***************************************************************************)
EXTENDS Integers, Sequences, FiniteSets, TLC

VARIABLES numGPUs, numTimesteps, passType, gridData,
          memoryUsage, edges, blankCount, error, lastOp, prev, steps, call

vars == <<numGPUs, numTimesteps, passType, gridData,
          memoryUsage, edges, blankCount, error, lastOp, prev, steps, call>>

(* ------------------------------ bounds --------------------------------- *)

\* Number of user operations explored from the state after construction.
MaxSteps == 2
\* The start grids of SpecGrids have at most MaxG rows and MaxT columns.
MaxG == 2
MaxT == 3
\* Number of populated cells of a start grid of SpecGrids.
MaxCells == 1
\* The functions of utils.ts are called with 1..MaxCallGPUs GPUs and with the
\* maximum, with 1..MaxCallTimesteps timesteps and with the maximum, and with
\* the batch numbers up to MaxBatch.
MaxCallGPUs == 8
MaxCallTimesteps == 20
MaxBatch == 80

(* ------------------------- program constants --------------------------- *)

MinCount == 1
MaxGPUs == 50
MaxTimesteps == 100
InitGPUs == 4
InitTimesteps == 10

cellWidth == 38
rowSpacing == 30
headerHeight == 28
headerRowGap == 25
rowLabelWidth == 60
rowHeight == 32
startX == rowLabelWidth

(* --------------------------- JavaScript values ------------------------- *)

null == <<>>
Some(x) == <<x>>

NaN == [nan |-> TRUE, num |-> 0]
Num(n) == [nan |-> FALSE, num |-> n]
isNaN(x) == x.nan

Min(a, b) == IF a < b THEN a ELSE b
Max(a, b) == IF a > b THEN a ELSE b

\* array.length of an array modelled as a function over 0..n-1
Length(a) == Cardinality(DOMAIN a)

(* ------------------------- Number(text) -------------------------------- *)
\* A text is a sequence of characters.  Number(text) follows the StringToNumber
\* conversion of ECMAScript on the alphabet of Texts: white space is trimmed,
\* the empty rest is 0, an optional sign followed by one or more decimal
\* digits is that decimal integer, and anything else is NaN.
\* (Texts with a fraction, an exponent, a radix prefix or "Infinity", which
\* Number also converts to a number, are outside this alphabet.)

WhiteSpace == {" "}
Digits == {"0", "1", "2", "3", "4", "5", "6", "7", "8", "9"}
DigitVal(c) ==
    CASE c = "0" -> 0 [] c = "1" -> 1 [] c = "2" -> 2 [] c = "3" -> 3
      [] c = "4" -> 4 [] c = "5" -> 5 [] c = "6" -> 6 [] c = "7" -> 7
      [] c = "8" -> 8 [] c = "9" -> 9

RECURSIVE TrimStart(_)
TrimStart(s) ==
    IF s # <<>> /\ Head(s) \in WhiteSpace THEN TrimStart(Tail(s)) ELSE s

RECURSIVE TrimEnd(_)
TrimEnd(s) ==
    IF s # <<>> /\ s[Len(s)] \in WhiteSpace
    THEN TrimEnd(SubSeq(s, 1, Len(s) - 1)) ELSE s

RECURSIVE DecimalValue(_)
DecimalValue(s) ==
    IF s = <<>> THEN 0
    ELSE 10 * DecimalValue(SubSeq(s, 1, Len(s) - 1)) + DigitVal(s[Len(s)])

AllDigits(s) == s # <<>> /\ \A i \in 1..Len(s) : s[i] \in Digits

Number(text) ==
    LET t == TrimEnd(TrimStart(text)) IN
    IF t = <<>> THEN Num(0)
    ELSE IF Head(t) = "-"
         THEN IF AllDigits(Tail(t)) THEN Num(0 - DecimalValue(Tail(t))) ELSE NaN
    ELSE IF Head(t) = "+"
         THEN IF AllDigits(Tail(t)) THEN Num(DecimalValue(Tail(t))) ELSE NaN
    ELSE IF AllDigits(t) THEN Num(DecimalValue(t))
    ELSE NaN

(* ------------------------------ utils.ts ------------------------------- *)

EmptyCell == [value |-> null, passType |-> null]
Cell(v, p) == [value |-> Some(v), passType |-> Some(p)]

\* (variant: a new cell has the pass type forward)
createEmptyGrid_ForwardCells(nG, nT) ==
    [gpuIdx \in 0..(nG - 1) |->
        [timeIdx \in 0..(nT - 1) |-> [value |-> null, passType |-> Some("forward")]]]

createEmptyGrid(nG, nT) ==
    [gpuIdx \in 0..(nG - 1) |-> [timeIdx \in 0..(nT - 1) |-> EmptyCell]]

\* what a call leaves when an assignment through an undefined row throws
TypeError == <<"TypeError">>
\* the element of an array at an index below its length that was never written
undefined == [undefined |-> TRUE]

\* grid[g][t] = cell: a row that does not exist throws, a column at or beyond
\* the length of the row lengthens the row, a negative column adds a property
\* and no element
SetCell(grid, g, t, cell) ==
    IF grid = TypeError \/ g \notin DOMAIN grid THEN TypeError
    ELSE IF t \in DOMAIN grid[g] THEN [grid EXCEPT ![g] = [@ EXCEPT ![t] = cell]]
    ELSE IF t < 0 THEN grid
    ELSE [grid EXCEPT ![g] =
             [u \in 0..t |-> IF u = t THEN cell
                             ELSE IF u \in DOMAIN grid[g] THEN grid[g][u]
                             ELSE undefined]]

\* In the loops below the grid an iteration leaves is bound as a value before
\* the next iteration runs, only to keep the evaluation shallow.

\* first loop: value 1, forward, at (i,i) for i < min(numGPUs, numTimesteps)
RECURSIVE ForwardDiagonal1(_, _, _, _)
ForwardDiagonal1(grid, i, nG, nT) ==
    IF i < Min(nG, nT)
    THEN CHOOSE out \in {ForwardDiagonal1(written, i + 1, nG, nT) :
                            written \in {SetCell(grid, i, i, Cell(1, "forward"))}} : TRUE
    ELSE grid

\* second loop: value 2, forward, at (i,i+1) for i < min(numGPUs, numTimesteps-1)
RECURSIVE ForwardDiagonal2(_, _, _, _)
ForwardDiagonal2(grid, i, nG, nT) ==
    IF i < Min(nG, nT - 1)
    THEN LET timeIdx == i + 1 IN
         CHOOSE out \in {ForwardDiagonal2(written, i + 1, nG, nT) :
                            written \in {IF timeIdx < nT
                                         THEN SetCell(grid, i, timeIdx, Cell(2, "forward"))
                                         ELSE grid}} : TRUE
    ELSE grid

\* third and fourth loop: value v, backward, at (numGPUs-1-i, start+i)
RECURSIVE BackwardDiagonal(_, _, _, _, _, _)
BackwardDiagonal(grid, i, nG, nT, start, v) ==
    IF i < Min(nG, nT - start)
    THEN LET gpuIdx == nG - 1 - i
             timeIdx == start + i
         IN  CHOOSE out \in {BackwardDiagonal(written, i + 1, nG, nT, start, v) :
                                written \in {IF gpuIdx >= 0 /\ timeIdx < nT
                                             THEN SetCell(grid, gpuIdx, timeIdx,
                                                          Cell(v, "backward"))
                                             ELSE grid}} : TRUE
    ELSE grid

\* (variant: the backward diagonals start one timestep earlier)
createDefaultGrid_NoGap(nG, nT) ==
    LET g0 == createEmptyGrid(nG, nT)
        g1 == ForwardDiagonal1(g0, 0, nG, nT)
        g2 == ForwardDiagonal2(g1, 0, nG, nT)
        backwardStartTime == nG
        g3 == BackwardDiagonal(g2, 0, nG, nT, backwardStartTime, 1)
        backward2StartTime == nG + 1
    IN  BackwardDiagonal(g3, 0, nG, nT, backward2StartTime, 2)

createDefaultGrid(nG, nT) ==
    LET g0 == createEmptyGrid(nG, nT)
        g1 == ForwardDiagonal1(g0, 0, nG, nT)
        g2 == ForwardDiagonal2(g1, 0, nG, nT)
        backwardStartTime == nG + 1
        g3 == BackwardDiagonal(g2, 0, nG, nT, backwardStartTime, 1)
        backward2StartTime == nG + 2
    IN  BackwardDiagonal(g3, 0, nG, nT, backward2StartTime, 2)

(* ------------------------- String(number) ------------------------------ *)
\* The key under which valueGroups files a batch value: its decimal text.

DigitChar(d) ==
    CASE d = 0 -> "0" [] d = 1 -> "1" [] d = 2 -> "2" [] d = 3 -> "3"
      [] d = 4 -> "4" [] d = 5 -> "5" [] d = 6 -> "6" [] d = 7 -> "7"
      [] d = 8 -> "8" [] d = 9 -> "9"

RECURSIVE NatToString(_)
NatToString(n) ==
    IF n < 10 THEN <<DigitChar(n)>>
    ELSE Append(NatToString(n \div 10), DigitChar(n % 10))

NumberToString(n) == IF n < 0 THEN <<"-">> \o NatToString(0 - n) ELSE NatToString(n)

(* ------------------ utils.ts: blank count and colours ------------------ *)

\* (variant: the cells that hold a value are counted)
BlankCells_CountsPopulated(row) ==
    Cardinality({timeIdx \in DOMAIN row : row[timeIdx].value # null})

\* row.filter(cell => cell.value === null).length
BlankCells(row) == Cardinality({timeIdx \in DOMAIN row : row[timeIdx].value = null})

\* the reduce over the rows lo .. hi-1, started with count (the range is
\* halved, and the count the first half leaves is bound as a value before the
\* second half runs, only to keep the evaluation shallow)
RECURSIVE BlankCountFrom(_, _, _, _)
BlankCountFrom(grid, count, lo, hi) ==
    IF hi <= lo THEN count
    ELSE IF hi = lo + 1 THEN count + BlankCells(grid[lo])
    ELSE LET mid == (lo + hi) \div 2 IN
         CHOOSE out \in {BlankCountFrom(grid, first, mid, hi) :
                            first \in {BlankCountFrom(grid, count, lo, mid)}} : TRUE

calculateBlankCount(grid) == BlankCountFrom(grid, 0, 0, Length(grid))

\* a % n of JavaScript: the result has the sign of a
Remainder(a, n) == IF a >= 0 THEN a % n ELSE 0 - ((0 - a) % n)

\* (variant: the hue is not reduced modulo 360)
getColorForBatch_NoWrap(batchNumber, pass) ==
    IF batchNumber = null THEN <<"t", "r", "a", "n", "s", "p", "a", "r", "e", "n", "t">>
    ELSE LET hue == 120 + ((batchNumber[1] - 1) * 50)
             saturation == 70
             lightness == IF pass = Some("forward") THEN 40 ELSE 60
         IN  <<"h", "s", "l", "(">> \o NumberToString(hue) \o <<",", " ">>
             \o NumberToString(saturation) \o <<"%", ",", " ">>
             \o NumberToString(lightness) \o <<"%", ")">>

\* (variant: the forward pass is the lighter one)
getColorForBatch_LightForward(batchNumber, pass) ==
    IF batchNumber = null THEN <<"t", "r", "a", "n", "s", "p", "a", "r", "e", "n", "t">>
    ELSE LET hue == Remainder(120 + ((batchNumber[1] - 1) * 50), 360)
             saturation == 70
             lightness == IF pass = Some("forward") THEN 60 ELSE 40
         IN  <<"h", "s", "l", "(">> \o NumberToString(hue) \o <<",", " ">>
             \o NumberToString(saturation) \o <<"%", ",", " ">>
             \o NumberToString(lightness) \o <<"%", ")">>

\* the text `hsl(${hue}, ${saturation}%, ${lightness}%)`, or 'transparent';
\* batchNumber and pass are nullable
getColorForBatch(batchNumber, pass) ==
    IF batchNumber = null THEN <<"t", "r", "a", "n", "s", "p", "a", "r", "e", "n", "t">>
    ELSE LET hue == Remainder(120 + ((batchNumber[1] - 1) * 50), 360)
             saturation == 70
             lightness == IF pass = Some("forward") THEN 40 ELSE 60
         IN  <<"h", "s", "l", "(">> \o NumberToString(hue) \o <<",", " ">>
             \o NumberToString(saturation) \o <<"%", ",", " ">>
             \o NumberToString(lightness) \o <<"%", ")">>

(* -------------------- FlowVisualization: memoryUsage ------------------- *)

\* the body of the inner loop: the event of one cell applied to batchesInMemory
ProcessEvent(batchesInMemory, cell) ==
    IF cell.value # null /\ cell.passType # null
    THEN IF cell.passType = Some("forward")
         THEN batchesInMemory \cup {cell.value[1]}
         ELSE IF cell.passType = Some("backward")
              THEN batchesInMemory \ {cell.value[1]}
              ELSE batchesInMemory
    ELSE batchesInMemory

\* The iterations timeIdx = lo .. hi-1 of the inner loop, started with the set
\* batchesInMemory: the set they leave and the sizes they record, in order.
\* The iterations run in increasing timeIdx; the range is halved, and the
\* outcome of the first half is bound as a value before the second half runs,
\* only to keep the evaluation shallow.
RECURSIVE MemoryLoop(_, _, _, _)
RECURSIVE MemoryLoopRest(_, _, _, _)
MemoryLoop(row, batchesInMemory, lo, hi) ==
    IF hi <= lo THEN [batchesInMemory |-> batchesInMemory, memory |-> <<>>]
    ELSE IF hi = lo + 1
         THEN LET after == ProcessEvent(batchesInMemory, row[lo]) IN
              [batchesInMemory |-> after, memory |-> <<Cardinality(after)>>]
    ELSE LET mid == (lo + hi) \div 2 IN
         CHOOSE out \in {MemoryLoopRest(row, first, mid, hi) :
                            first \in {MemoryLoop(row, batchesInMemory, lo, mid)}} : TRUE

MemoryLoopRest(row, first, mid, hi) ==
    LET second == MemoryLoop(row, first.batchesInMemory, mid, hi) IN
    [batchesInMemory |-> second.batchesInMemory,
     memory |-> first.memory \o second.memory]

\* (variant: the size is recorded before the event of the timestep is applied)
computeMemoryUsage_BeforeEvent(grid, nG, nT) ==
    [gpuIdx \in 0..(nG - 1) |->
        LET recorded == MemoryLoop(grid[gpuIdx], {}, 0, nT).memory IN
        [timeIdx \in 0..(nT - 1) |-> IF timeIdx = 0 THEN 0 ELSE recorded[timeIdx]]]

\* (variant: batchesInMemory is created once, before the loop over the GPUs, so
\* that a row starts with the set the row above has left)
RECURSIVE SharedRows(_, _, _, _, _)
RECURSIVE SharedRowsRest(_, _, _, _, _)
SharedRows(grid, start, lo, hi, nT) ==
    IF hi <= lo THEN [batchesInMemory |-> start, rows |-> <<>>]
    ELSE IF hi = lo + 1
         THEN LET r == MemoryLoop(grid[lo], start, 0, nT) IN
              [batchesInMemory |-> r.batchesInMemory, rows |-> <<r.memory>>]
    ELSE LET mid == (lo + hi) \div 2 IN
         CHOOSE out \in
             {SharedRowsRest(grid, first, mid, hi, nT) :
                 first \in {SharedRows(grid, start, lo, mid, nT)}} : TRUE

SharedRowsRest(grid, first, mid, hi, nT) ==
    LET second == SharedRows(grid, first.batchesInMemory, mid, hi, nT) IN
    [batchesInMemory |-> second.batchesInMemory, rows |-> first.rows \o second.rows]

computeMemoryUsage_SharedSet(grid, nG, nT) ==
    LET rows == SharedRows(grid, {}, 0, nG, nT).rows IN
    [gpuIdx \in 0..(nG - 1) |-> [timeIdx \in 0..(nT - 1) |-> rows[gpuIdx + 1][timeIdx + 1]]]

\* memory[gpuIdx][timeIdx] = batchesInMemory.size, recorded at the end of
\* iteration timeIdx
computeMemoryUsage(grid, nG, nT) ==
    [gpuIdx \in 0..(nG - 1) |->
        LET recorded == MemoryLoop(grid[gpuIdx], {}, 0, nT).memory IN
        [timeIdx \in 0..(nT - 1) |-> recorded[timeIdx + 1]]]

(* --------------- FlowVisualization: allCells, valueGroups -------------- *)

\* the populated cells of one row, in increasing timeIdx
RowCells(row, gpuIdx) ==
    LET all == [i \in 1..Length(row) |->
                   [cell |-> row[i - 1], timeIdx |-> i - 1, gpuIdx |-> gpuIdx]]
        kept == SelectSeq(all, LAMBDA e : e.cell.value # null /\ e.cell.passType # null)
    IN  [i \in 1..Len(kept) |->
            [value |-> kept[i].cell.value[1], timeIdx |-> kept[i].timeIdx,
             gpuIdx |-> kept[i].gpuIdx, passType |-> kept[i].cell.passType[1]]]

\* the cells pushed while forEach visits the rows lo .. hi-1 (the range is
\* halved only to keep the evaluation shallow)
RECURSIVE CellsFrom(_, _, _)
CellsFrom(grid, lo, hi) ==
    IF hi <= lo THEN <<>>
    ELSE IF hi = lo + 1 THEN RowCells(grid[lo], lo)
    ELSE LET mid == (lo + hi) \div 2 IN
         CellsFrom(grid, lo, mid) \o CellsFrom(grid, mid, hi)

\* gridData.forEach(row => row.forEach(cell => ... allCells.push(...)))
allCells(grid) == CellsFrom(grid, 0, Length(grid))

\* valueGroups[v]: the cells of value v in the order they were pushed
valueGroups(cells) ==
    [v \in {cells[i].value : i \in 1..Len(cells)} |->
        SelectSeq(cells, LAMBDA c : c.value = v)]

\* Object.entries lists the keys that are array indices first, ascending,
\* and then the other keys in the order they were created.
\* (an array index is an integer in 0 .. 2^32 - 2, which every non-negative
\* integer of the model is)
IsArrayIndex(v) == v >= 0

RECURSIVE Ascending(_)
Ascending(S) ==
    IF S = {} THEN <<>>
    ELSE LET m == CHOOSE x \in S : \A y \in S : x <= y
         IN  <<m>> \o Ascending(S \ {m})

RECURSIVE CreationOrder(_, _)
CreationOrder(cells, seen) ==
    IF cells = <<>> THEN <<>>
    ELSE LET v == Head(cells).value IN
         IF v \in seen \/ IsArrayIndex(v)
         THEN CreationOrder(Tail(cells), seen)
         ELSE <<v>> \o CreationOrder(Tail(cells), seen \cup {v})

ObjectKeys(cells) ==
    Ascending({v \in {cells[i].value : i \in 1..Len(cells)} : IsArrayIndex(v)})
    \o CreationOrder(cells, {})

(* ---------------------- FlowVisualization: edges ----------------------- *)

\* (variant: the comparator orders by GPU first, then by timestep)
compare_GpuFirst(a, b) ==
    IF a.gpuIdx # b.gpuIdx THEN a.gpuIdx - b.gpuIdx ELSE a.timeIdx - b.timeIdx

\* the comparator of positions.sort
compare(a, b) ==
    IF a.timeIdx # b.timeIdx THEN a.timeIdx - b.timeIdx ELSE a.gpuIdx - b.gpuIdx

\* x goes after every element that does not compare greater (a stable sort)
RECURSIVE InsertSorted(_, _)
InsertSorted(x, sorted) ==
    IF sorted = <<>> THEN <<x>>
    ELSE IF compare(Head(sorted), x) <= 0
         THEN <<Head(sorted)>> \o InsertSorted(x, Tail(sorted))
         ELSE <<x>> \o sorted

RECURSIVE sort(_)
sort(positions) ==
    IF positions = <<>> THEN <<>>
    ELSE InsertSorted(positions[Len(positions)],
                      sort(SubSeq(positions, 1, Len(positions) - 1)))

rowY(gpuIdx) == headerHeight + headerRowGap + gpuIdx * (rowHeight + rowSpacing)
                + rowHeight \div 2
colX(timeIdx) == startX + timeIdx * cellWidth + cellWidth \div 2

\* (variant: the edge takes the pass type of its target)
Edge_TargetPass(from, to, key) ==
    [x1 |-> colX(from.timeIdx), y1 |-> rowY(from.gpuIdx),
     x2 |-> colX(to.timeIdx),   y2 |-> rowY(to.gpuIdx),
     passType |-> to.passType, value |-> Number(key).num]

\* the edge pushed for sorted[i], sorted[i+1]
Edge(from, to, key) ==
    [x1 |-> colX(from.timeIdx), y1 |-> rowY(from.gpuIdx),
     x2 |-> colX(to.timeIdx),   y2 |-> rowY(to.gpuIdx),
     passType |-> from.passType, value |-> Number(key).num]

\* (variant: the positions are joined in the order they were pushed)
GroupEdges_Unsorted(key, positions) ==
    IF Length(positions) < 2 THEN <<>>
    ELSE [i \in 1..(Len(positions) - 1) |-> Edge(positions[i], positions[i + 1], key)]

\* the edges of one entry [value, positions] of valueGroups
GroupEdges(key, positions) ==
    IF Length(positions) < 2 THEN <<>>
    ELSE LET sorted == sort(positions) IN
         [i \in 1..(Len(sorted) - 1) |-> Edge(sorted[i], sorted[i + 1], key)]

RECURSIVE EdgesOf(_, _)
EdgesOf(keys, groups) ==
    IF keys = <<>> THEN <<>>
    ELSE GroupEdges(NumberToString(Head(keys)), groups[Head(keys)])
         \o EdgesOf(Tail(keys), groups)

computeEdges(grid) ==
    LET cells == allCells(grid) IN EdgesOf(ObjectKeys(cells), valueGroups(cells))

(* ------------------------------ App ------------------------------------ *)

\* (variant: the last existing row is taken for a new row)
handleGridSizeChange_OffByOne(grid, newGPUs, newTimesteps) ==
    [gpuIdx \in 0..(newGPUs - 1) |->
        IF gpuIdx < Length(grid) - 1
        THEN LET existingRow == grid[gpuIdx] IN
             [timeIdx \in 0..(newTimesteps - 1) |->
                 IF timeIdx < Length(existingRow) THEN existingRow[timeIdx]
                 ELSE EmptyCell]
        ELSE [timeIdx \in 0..(newTimesteps - 1) |-> EmptyCell]]

handleGridSizeChange(grid, newGPUs, newTimesteps) ==
    [gpuIdx \in 0..(newGPUs - 1) |->
        IF gpuIdx < Length(grid)
        THEN LET existingRow == grid[gpuIdx] IN
             [timeIdx \in 0..(newTimesteps - 1) |->
                 IF timeIdx < Length(existingRow) THEN existingRow[timeIdx]
                 ELSE EmptyCell]
        ELSE [timeIdx \in 0..(newTimesteps - 1) |-> EmptyCell]]

\* (variant: no lower bound)
clampGPUs_NoLowerBound(value) == Min(MaxGPUs, value)

\* Math.max(1, Math.min(50, value))
clampGPUs(value) == Max(MinCount, Min(MaxGPUs, value))
\* Math.max(1, Math.min(100, value))
clampTimesteps(value) == Max(MinCount, Min(MaxTimesteps, value))

\* parseInt(e.target.value) || 1, p being the result of parseInt
OrOne(p) == IF isNaN(p) \/ p.num = 0 THEN 1 ELSE p.num

\* value === '' ? null : (isNaN(Number(value)) ? null : Number(value))
numValue(value) ==
    IF value = <<>> THEN null
    ELSE IF isNaN(Number(value)) THEN null ELSE Some(Number(value).num)

\* (variant: the pass type is not cleared with the value)
editedCell_KeepsPass(value, pass) ==
    [value |-> numValue(value), passType |-> Some(pass)]

\* the cell returned for c === timeIdx
editedCell(value, pass) ==
    [value |-> numValue(value),
     passType |-> IF numValue(value) # null THEN Some(pass) ELSE null]

\* (variant: the row is not compared, the column is edited in every row)
handleCellChange_EveryRow(grid, pass, gpuIdx, timeIdx, value) ==
    [r \in DOMAIN grid |->
        [c \in DOMAIN grid[r] |->
            IF c = timeIdx THEN editedCell(value, pass) ELSE grid[r][c]]]

handleCellChange(grid, pass, gpuIdx, timeIdx, value) ==
    [r \in DOMAIN grid |->
        IF r = gpuIdx
        THEN [c \in DOMAIN grid[r] |->
                 IF c = timeIdx THEN editedCell(value, pass) ELSE grid[r][c]]
        ELSE grid[r]]

\* FlowVisualization reads gridData[gpuIdx][timeIdx] for every gpuIdx < numGPUs
\* and timeIdx < numTimesteps: a read outside the grid throws.
RenderThrows(grid, nG, nT) ==
    \E gpuIdx \in 0..(nG - 1), timeIdx \in 0..(nT - 1) :
        gpuIdx \notin DOMAIN grid \/ timeIdx \notin DOMAIN grid[gpuIdx]

\* the render that follows every state change: App computes blankCount, then
\* FlowVisualization computes memoryUsage and edges
Render(grid, nG, nT) ==
    /\ blankCount' = calculateBlankCount(grid)
    /\ IF RenderThrows(grid, nG, nT)
       THEN error' = TRUE /\ memoryUsage' = <<>> /\ edges' = <<>>
       ELSE /\ error' = FALSE
            /\ memoryUsage' = computeMemoryUsage(grid, nG, nT)
            /\ edges' = computeEdges(grid)

(* ------------------------------ inputs --------------------------------- *)

\* what parseInt makes of the text of a number input
GPUInputs == {NaN} \cup {Num(v) : v \in {-1, 0, 2, 5, 51}}
TimestepInputs == {NaN} \cup {Num(v) : v \in {-1, 0, 2, 11, 101}}
\* the texts entered in a cell
Texts == {<<>>, <<" ">>, <<"a">>, <<"0">>, <<"3">>, <<"5">>, <<"-", "1", "2">>}
\* the rendered cells that are edited
EditGPUs == {0, 1}
EditTimes == {0, 1, 2}

(* ------------------------------ state ---------------------------------- *)

Snapshot == [gridData |-> gridData, numGPUs |-> numGPUs,
             numTimesteps |-> numTimesteps, passType |-> passType,
             memoryUsage |-> memoryUsage]

Op(name, req, g, t, text) ==
    [op |-> name, req |-> req, gpuIdx |-> g, timeIdx |-> t, text |-> text]

NoOp == Op("init", NaN, 0, 0, <<>>)

\* the last call of a function of utils.ts made on its own: the function, its
\* arguments and what it returned
Call(fn, args, ret) == [fn |-> fn, args |-> args, ret |-> ret]
NoCall == Call("none", <<>>, <<>>)

InitWith(grid, nG, nT, pass, n) ==
    /\ numGPUs = nG
    /\ numTimesteps = nT
    /\ passType = pass
    /\ gridData = grid
    /\ memoryUsage = computeMemoryUsage(grid, nG, nT)
    /\ edges = computeEdges(grid)
    /\ blankCount = calculateBlankCount(grid)
    /\ error = FALSE
    /\ lastOp = NoOp
    /\ call = NoCall
    /\ prev = [gridData |-> grid, numGPUs |-> nG, numTimesteps |-> nT,
               passType |-> pass, memoryUsage |-> computeMemoryUsage(grid, nG, nT)]
    /\ steps = n

\* useState(4), useState(10), useState('forward'), createDefaultGrid(4, 10)
Init ==
    InitWith(createDefaultGrid(InitGPUs, InitTimesteps), InitGPUs, InitTimesteps,
             "forward", 0)

Step(op) ==
    /\ ~error
    /\ steps < MaxSteps
    /\ steps' = steps + 1
    /\ lastOp' = op
    /\ prev' = Snapshot
    /\ UNCHANGED call

GPUsChange(p) ==
    LET newValue == clampGPUs(OrOne(p)) IN
    /\ Step(Op("gpus", p, 0, 0, <<>>))
    /\ numGPUs' = newValue
    /\ gridData' = handleGridSizeChange(gridData, newValue, numTimesteps)
    /\ UNCHANGED <<numTimesteps, passType>>
    /\ Render(gridData', numGPUs', numTimesteps')

\* (variant: the grid is resized to the requested count, not the clamped one)
TimestepsChange_Unclamped(p) ==
    LET newValue == clampTimesteps(OrOne(p)) IN
    /\ Step(Op("timesteps", p, 0, 0, <<>>))
    /\ numTimesteps' = newValue
    /\ gridData' = handleGridSizeChange(gridData, numGPUs, Max(MinCount, OrOne(p)))
    /\ UNCHANGED <<numGPUs, passType>>
    /\ Render(gridData', numGPUs', numTimesteps')

TimestepsChange(p) ==
    LET newValue == clampTimesteps(OrOne(p)) IN
    /\ Step(Op("timesteps", p, 0, 0, <<>>))
    /\ numTimesteps' = newValue
    /\ gridData' = handleGridSizeChange(gridData, numGPUs, newValue)
    /\ UNCHANGED <<numGPUs, passType>>
    /\ Render(gridData', numGPUs', numTimesteps')

TogglePassType ==
    /\ Step(Op("toggle", NaN, 0, 0, <<>>))
    /\ passType' = IF passType = "forward" THEN "backward" ELSE "forward"
    /\ UNCHANGED <<numGPUs, numTimesteps, gridData>>
    /\ Render(gridData', numGPUs', numTimesteps')

\* onChange of the rendered input of cell (gpuIdx, timeIdx)
CellChange(gpuIdx, timeIdx, value) ==
    /\ gpuIdx \in DOMAIN gridData
    /\ timeIdx \in DOMAIN gridData[gpuIdx]
    /\ Step(Op("cell", NaN, gpuIdx, timeIdx, value))
    /\ gridData' = handleCellChange(gridData, passType, gpuIdx, timeIdx, value)
    /\ UNCHANGED <<numGPUs, numTimesteps, passType>>
    /\ Render(gridData', numGPUs', numTimesteps')

Next ==
    \/ \E p \in GPUInputs : GPUsChange(p)
    \/ \E p \in TimestepInputs : TimestepsChange(p)
    \/ TogglePassType
    \/ \E g \in EditGPUs, t \in EditTimes, value \in Texts : CellChange(g, t, value)

Spec == Init /\ [][Next]_vars

(* ------------------- every small grid as a start state ----------------- *)
\* Every grid with numGPUs rows of numTimesteps cells whose populated cells hold
\* integers with a pass type is a state the program reaches from Init by
\* resizes, toggles and cell edits.  SpecGrids starts from every such grid of
\* at most MaxG x MaxT cells with at most MaxCells populated cells, and from the
\* two scenario grids, and explores one operation from each.

Vals == {3, 5}
PassTypes == {"forward", "backward"}

RECURSIVE GridsWith(_, _, _)
GridsWith(nG, nT, k) ==
    IF k = 0 THEN {createEmptyGrid(nG, nT)}
    ELSE LET fewer == GridsWith(nG, nT, k - 1) IN
         fewer \cup
         {SetCell(grid, g, t, Cell(v, p)) :
             grid \in fewer, g \in 0..(nG - 1), t \in 0..(nT - 1),
             v \in Vals, p \in PassTypes}

\* batch 3 at (gpu 0, t 0, forward), (gpu 1, t 1, forward), (gpu 1, t 5, backward)
FlowScenarioGrid ==
    SetCell(SetCell(SetCell(createEmptyGrid(2, 6),
        0, 0, Cell(3, "forward")), 1, 1, Cell(3, "forward")), 1, 5, Cell(3, "backward"))

\* one row: batch 5 forward at t 0, batch 5 backward at t 2
MemoryScenarioGrid ==
    SetCell(SetCell(createEmptyGrid(1, 4),
        0, 0, Cell(5, "forward")), 0, 2, Cell(5, "backward"))

InitGrids ==
    \E pass \in PassTypes :
        \/ \E nG \in 1..MaxG, nT \in 1..MaxT :
               \E grid \in GridsWith(nG, nT, MaxCells) :
                   InitWith(grid, nG, nT, pass, MaxSteps - 1)
        \/ InitWith(FlowScenarioGrid, 2, 6, pass, MaxSteps - 1)
        \/ InitWith(MemoryScenarioGrid, 1, 4, pass, MaxSteps - 1)

SpecGrids == InitGrids /\ [][Next]_vars

(* ------------------ the functions of utils.ts on their own ------------- *)
\* SpecUtils calls createEmptyGrid, createDefaultGrid and getColorForBatch with
\* arguments drawn from the sets below, in the state after construction with
\* either setting of the toggle; a call leaves the state of App alone.  The
\* functions read nothing but their arguments, so one call is explored from
\* each start state.

CallGPUs == (1..MaxCallGPUs) \cup {MaxGPUs}
CallTimesteps == (1..MaxCallTimesteps) \cup {MaxTimesteps}
\* the batch numbers passed: null, the positive ones, and 0 and -12, which a
\* cell can hold
CallBatches == {null} \cup {Some(b) : b \in (1..MaxBatch) \cup {0, -12}}
CallPasses == {null, Some("forward"), Some("backward")}

appVars == <<numGPUs, numTimesteps, passType, gridData,
             memoryUsage, edges, blankCount, error, lastOp, prev, steps>>

CallCreateEmptyGrid(nG, nT) ==
    /\ call = NoCall
    /\ call' = Call("createEmptyGrid", <<nG, nT>>, createEmptyGrid(nG, nT))
    /\ UNCHANGED appVars

CallCreateDefaultGrid(nG, nT) ==
    /\ call = NoCall
    /\ call' = Call("createDefaultGrid", <<nG, nT>>, createDefaultGrid(nG, nT))
    /\ UNCHANGED appVars

CallGetColorForBatch(batchNumber, pass) ==
    /\ call = NoCall
    /\ call' = Call("getColorForBatch", <<batchNumber, pass>>,
                    getColorForBatch(batchNumber, pass))
    /\ UNCHANGED appVars

InitUtils ==
    \E pass \in PassTypes :
        InitWith(createDefaultGrid(InitGPUs, InitTimesteps), InitGPUs, InitTimesteps,
                 pass, 0)

NextUtils ==
    \/ \E nG \in CallGPUs, nT \in CallTimesteps : CallCreateEmptyGrid(nG, nT)
    \/ \E nG \in CallGPUs, nT \in CallTimesteps : CallCreateDefaultGrid(nG, nT)
    \/ \E batchNumber \in CallBatches, pass \in CallPasses :
           CallGetColorForBatch(batchNumber, pass)

SpecUtils == InitUtils /\ [][NextUtils]_vars

(* ------------------------------ claims --------------------------------- *)

Populated(cell) == cell.value # null
FullyEmpty(cell) == cell.value = null /\ cell.passType = null
\* the positions <<g, t>> of a grid
Positions(grid) == UNION {{<<g, t>> : t \in DOMAIN grid[g]} : g \in DOMAIN grid}
Rectangular(grid, nG, nT) ==
    /\ DOMAIN grid = 0..(nG - 1)
    /\ \A g \in DOMAIN grid : DOMAIN grid[g] = 0..(nT - 1)

\* r is old resized to newG x newT: the common cells kept, the others empty
Resized(old, newG, newT, r) ==
    LET keptRows == Min(Length(old), newG)
        keptCols == Min(Length(old[0]), newT)
    IN  /\ Rectangular(r, newG, newT)
        /\ \A g \in 0..(newG - 1), t \in 0..(newT - 1) :
              IF g < keptRows /\ t < keptCols
              THEN r[g][t] = old[g][t]
              ELSE FullyEmpty(r[g][t])

\* C1: resize returns a grid of exactly the requested size that keeps every
\* cell (i,j) with i < min(rows,newG), j < min(cols,newT) and is empty elsewhere:
\* for every start grid and every requested size up to one more than the start
\* grids', and for the resize each GPU-count or timestep-count change performs
\* (up to 50 rows and 100 columns).
C1_ResizePreserves ==
    /\ lastOp.op = "init" =>
          \A newG \in 1..(MaxG + 1), newT \in 1..(MaxT + 1) :
              Resized(gridData, newG, newT, handleGridSizeChange(gridData, newG, newT))
    /\ lastOp.op \in {"gpus", "timesteps"} =>
          Resized(prev.gridData, numGPUs, numTimesteps, gridData)

\* a resize has dropped a populated cell and kept another one
C1_Witness ==
    /\ lastOp.op = "timesteps"
    /\ numTimesteps < prev.numTimesteps
    /\ \E g \in DOMAIN gridData : \E t \in DOMAIN gridData[g] : Populated(gridData[g][t])
    /\ \E g \in DOMAIN prev.gridData :
          \E t \in numTimesteps..(prev.numTimesteps - 1) : Populated(prev.gridData[g][t])

\* C2: in every reachable state every cell has a pass type iff it has a value.
C2_PassIffValue ==
    \A g \in DOMAIN gridData : \A t \in DOMAIN gridData[g] :
        (gridData[g][t].passType # null) <=> (gridData[g][t].value # null)

\* an edit has emptied a populated cell
C2_Witness ==
    /\ lastOp.op = "cell"
    /\ Populated(prev.gridData[lastOp.gpuIdx][lastOp.timeIdx])
    /\ FullyEmpty(gridData[lastOp.gpuIdx][lastOp.timeIdx])

\* C3: in every reachable state the grid has exactly numGPUs rows of exactly
\* numTimesteps cells, so no read of gridData[g][t] with g < numGPUs and
\* t < numTimesteps falls outside the grid.
C3_GridMatchesCounts ==
    /\ Rectangular(gridData, numGPUs, numTimesteps)
    /\ Length(gridData) = numGPUs
    /\ ~RenderThrows(gridData, numGPUs, numTimesteps)
    /\ ~error

\* both counts have been changed, one to its maximum
C3_Witness ==
    /\ numGPUs # InitGPUs
    /\ numTimesteps = MaxTimesteps
    /\ lastOp.op \in {"gpus", "timesteps"}

\* C4: a cell edit at (g,t) replaces exactly that cell: the other cells, the
\* dimensions, the counts and the toggle are unchanged; the edited cell holds
\* the entered value with the toggle's pass type when a value is given, and is
\* fully empty when the value is absent.
C4_CellEditFrame ==
    lastOp.op = "cell" =>
        LET g == lastOp.gpuIdx
            t == lastOp.timeIdx
            entered == IF lastOp.text = <<>> THEN NaN ELSE Number(lastOp.text)
        IN  /\ numGPUs = prev.numGPUs
            /\ numTimesteps = prev.numTimesteps
            /\ passType = prev.passType
            /\ DOMAIN gridData = DOMAIN prev.gridData
            /\ \A r \in DOMAIN gridData : DOMAIN gridData[r] = DOMAIN prev.gridData[r]
            /\ \A r \in DOMAIN gridData : \A c \in DOMAIN gridData[r] :
                  <<r, c>> # <<g, t>> => gridData[r][c] = prev.gridData[r][c]
            /\ IF isNaN(entered)
               THEN FullyEmpty(gridData[g][t])
               ELSE gridData[g][t] =
                        [value |-> <<entered.num>>, passType |-> <<prev.passType>>]

\* an edit has overwritten a forward cell with a backward one while other
\* cells are populated
C4_Witness ==
    /\ lastOp.op = "cell"
    /\ prev.gridData[lastOp.gpuIdx][lastOp.timeIdx].passType = <<"forward">>
    /\ gridData[lastOp.gpuIdx][lastOp.timeIdx].passType = <<"backward">>
    /\ \E r \in DOMAIN gridData : \E c \in DOMAIN gridData[r] :
          <<r, c>> # <<lastOp.gpuIdx, lastOp.timeIdx>> /\ Populated(gridData[r][c])

\* the times of row at which there is an event (a populated cell)
EventTimes(row) == {u \in DOMAIN row : row[u].value # null /\ row[u].passType # null}

\* the batch ids whose last event among the events ev at times <= t is a forward
ResidentAfter(row, ev, t) ==
    {row[u].value[1] :
        u \in {u \in ev : /\ u <= t
                          /\ row[u].passType = <<"forward">>
                          /\ \A w \in ev : (u < w /\ w <= t) => row[w].value # row[u].value}}

\* C5: the occupancy at (g,t) is the size of the resident set left by replaying
\* the cells of row g at times 0..t in time order (forward adds the batch id,
\* backward removes it, an empty cell changes nothing), the event at t included:
\* a batch id is resident exactly when its last event up to t is a forward.
\* A row with batch 5 forward at t=0 and backward at t=2 has occupancy 1,1,0,0.
C5_OccupancyIsReplay ==
    /\ DOMAIN memoryUsage = DOMAIN gridData
    /\ \A g \in DOMAIN gridData :
          LET row == gridData[g]
              ev == EventTimes(row)
          IN  /\ DOMAIN memoryUsage[g] = DOMAIN row
              /\ \A t \in DOMAIN row :
                    memoryUsage[g][t] = Cardinality(ResidentAfter(row, ev, t))
    /\ gridData = MemoryScenarioGrid =>
          /\ memoryUsage[0][0] = 1 /\ memoryUsage[0][1] = 1
          /\ memoryUsage[0][2] = 0 /\ memoryUsage[0][3] = 0

\* an edit has completed a row in which a batch is admitted and later released
C5_Witness ==
    /\ lastOp.op = "cell"
    /\ \E g \in DOMAIN gridData : \E t1, t2 \in DOMAIN gridData[g] :
          /\ t1 < t2
          /\ gridData[g][t1].passType = <<"forward">>
          /\ gridData[g][t2].passType = <<"backward">>
          /\ gridData[g][t1].value = gridData[g][t2].value
          /\ memoryUsage[g][t1] = 1
          /\ memoryUsage[g][t2] = 0

\* the cell <<g, t>> an edge starts from and the one it ends at
EdgeFrom(e) == <<(e.y1 - rowY(0)) \div (rowHeight + rowSpacing),
                 (e.x1 - colX(0)) \div cellWidth>>
EdgeTo(e) == <<(e.y2 - rowY(0)) \div (rowHeight + rowSpacing),
               (e.x2 - colX(0)) \div cellWidth>>
\* the edge is drawn between the centres of the cells from and to
Joins(e, from, to) ==
    /\ e.x1 = colX(from[2]) /\ e.y1 = rowY(from[1])
    /\ e.x2 = colX(to[2])   /\ e.y2 = rowY(to[1])

PopulatedPositions ==
    UNION {{<<g, t>> : t \in {u \in DOMAIN gridData[g] : Populated(gridData[g][u])}} :
              g \in DOMAIN gridData}
BatchIdsOf(cells) == {gridData[p[1]][p[2]].value[1] : p \in cells}
CellsOfBatch(cells, b) == {p \in cells : gridData[p[1]][p[2]].value = <<b>>}
\* p comes before q: earlier time, or the same time and a lower GPU
Before(p, q) == p[2] < q[2] \/ (p[2] = q[2] /\ p[1] < q[1])
Rank(p, S) == Cardinality({q \in S : Before(q, p)})
EdgesOfBatch(b) == SelectSeq(edges, LAMBDA e : e.value = b)

\* C6: the edges of each batch id join, in order, the adjacent pairs of its
\* populated cells ordered by time and then by GPU: the i-th edge of the batch
\* goes from its i-th cell to its (i+1)-th cell, so N cells give N-1 edges; no
\* edge has a batch id that no cell holds, and the edges of a batch id are
\* contiguous.  Batch 3 at (0,0), (1,1), (1,5) gives (0,0)->(1,1), (1,1)->(1,5).
C6_EdgesChainBatch ==
    LET cells == PopulatedPositions IN
    /\ \A b \in BatchIdsOf(cells) :
          LET S == CellsOfBatch(cells, b)
              es == EdgesOfBatch(b)
          IN  /\ Len(es) = Cardinality(S) - 1
              /\ \A i \in 1..Len(es) :
                    /\ EdgeFrom(es[i]) \in S /\ Rank(EdgeFrom(es[i]), S) = i - 1
                    /\ EdgeTo(es[i]) \in S /\ Rank(EdgeTo(es[i]), S) = i
                    /\ Joins(es[i], EdgeFrom(es[i]), EdgeTo(es[i]))
    /\ \A i \in 1..Len(edges) : edges[i].value \in BatchIdsOf(cells)
    /\ \A i, k \in 1..Len(edges) : \A j \in i..k :
          edges[i].value = edges[k].value => edges[j].value = edges[i].value
    /\ gridData = FlowScenarioGrid =>
          /\ Len(edges) = 2
          /\ Joins(edges[1], <<0, 0>>, <<1, 1>>)
          /\ Joins(edges[2], <<1, 1>>, <<1, 5>>)

\* an edit has given a batch three or more cells, two of them at the same time
C6_Witness ==
    /\ lastOp.op = "cell"
    /\ \E b \in BatchIdsOf(PopulatedPositions) :
          LET S == CellsOfBatch(PopulatedPositions, b) IN
          /\ Cardinality(S) >= 3
          /\ \E p, q \in S : p # q /\ p[2] = q[2]

\* C7: every edge has the pass type of the cell it starts from and the value
\* of both its end cells; two cells of a batch id that are adjacent in
\* (time, GPU) order are joined by such an edge whatever their pass types.
C7_EdgePassFromSource ==
    LET cells == PopulatedPositions IN
    /\ \A i \in 1..Len(edges) :
          LET e == edges[i]
              from == EdgeFrom(e)
              to == EdgeTo(e)
          IN  /\ from \in cells
              /\ to \in cells
              /\ Joins(e, from, to)
              /\ gridData[from[1]][from[2]].passType = <<e.passType>>
              /\ gridData[from[1]][from[2]].value = <<e.value>>
              /\ gridData[to[1]][to[2]].value = <<e.value>>
    /\ \A b \in BatchIdsOf(cells) :
          LET S == CellsOfBatch(cells, b) IN
          \A p, q \in S :
              (Before(p, q) /\ ~\E r \in S : Before(p, r) /\ Before(r, q))
              => \E i \in 1..Len(edges) :
                    /\ Joins(edges[i], p, q)
                    /\ edges[i].value = b
                    /\ <<edges[i].passType>> = gridData[p[1]][p[2]].passType

\* an edit has made a chain with a forward edge into a backward cell and a
\* backward edge into a forward cell
C7_Witness ==
    /\ lastOp.op = "cell"
    /\ \E i, j \in 1..Len(edges) :
          /\ edges[i].passType = "forward"
          /\ gridData[EdgeTo(edges[i])[1]][EdgeTo(edges[i])[2]].passType = <<"backward">>
          /\ edges[j].passType = "backward"
          /\ gridData[EdgeTo(edges[j])[1]][EdgeTo(edges[j])[2]].passType = <<"forward">>

ClampTo(v, lo, hi) == IF v < lo THEN lo ELSE IF v > hi THEN hi ELSE v

\* C8: after a GPU-count change requesting the integer v, numGPUs is v clamped
\* to [1,50]; after a timestep-count change requesting v, numTimesteps is v
\* clamped to [1,100]; in every reachable state both counts are within their
\* bounds and no error state has been entered.
C8_CountsClamped ==
    /\ (lastOp.op = "gpus" /\ ~isNaN(lastOp.req)) =>
          numGPUs = ClampTo(lastOp.req.num, 1, 50)
    /\ (lastOp.op = "timesteps" /\ ~isNaN(lastOp.req)) =>
          numTimesteps = ClampTo(lastOp.req.num, 1, 100)
    /\ 1 <= numGPUs /\ numGPUs <= 50
    /\ 1 <= numTimesteps /\ numTimesteps <= 100
    /\ ~error

\* a negative timestep request has been clamped to 1 after a GPU request above
\* the maximum was clamped to 50
C8_Witness ==
    /\ lastOp.op = "timesteps"
    /\ lastOp.req = Num(-1)
    /\ numTimesteps = 1
    /\ numGPUs = 50

\* the text is a decimal integer, with an optional sign, between white space
DenotesNumber(text) ==
    \E i, j \in 1..Len(text) :
        /\ i <= j
        /\ \A k \in 1..Len(text) : (k < i \/ k > j) => text[k] \in WhiteSpace
        /\ LET body == SubSeq(text, i, j)
               digits == IF body[1] \in {"+", "-"} THEN Tail(body) ELSE body
           IN  digits # <<>> /\ \A k \in 1..Len(digits) : digits[k] \in Digits

\* C9: a cell edit whose text is not numeric (white space only included)
\* leaves the edited cell fully empty; only a text that denotes a number gives
\* a populated cell.
C9_NonNumericLeavesEmpty ==
    lastOp.op = "cell" =>
        LET cell == gridData[lastOp.gpuIdx][lastOp.timeIdx] IN
        /\ ~DenotesNumber(lastOp.text) => FullyEmpty(cell)
        /\ Populated(cell) => DenotesNumber(lastOp.text)

\* C10: in every reachable state the value of every populated cell is a
\* positive integer.
C10_ValuesPositive ==
    \A g \in DOMAIN gridData : \A t \in DOMAIN gridData[g] :
        Populated(gridData[g][t]) => gridData[g][t].value[1] > 0

\* the populated cells of a grid, each as <<gpuIdx, timeIdx, value, passType>>
PopulatedOf(grid) ==
    UNION {{<<g, t, grid[g][t].value[1], grid[g][t].passType[1]>> :
               t \in {u \in DOMAIN grid[g] : Populated(grid[g][u])}} : g \in DOMAIN grid}
\* every cell has a value and a pass type, or neither
WellFormed(grid) ==
    \A g \in DOMAIN grid : \A t \in DOMAIN grid[g] :
        \/ FullyEmpty(grid[g][t])
        \/ (grid[g][t].value # null /\ grid[g][t].passType # null)

\* the four diagonals of the default pattern, each cut at the edge of the grid
DefaultPattern(nG, nT) ==
    {<<i, i, 1, "forward">> : i \in 0..(Min(nG, nT) - 1)}
    \cup {<<i, i + 1, 2, "forward">> : i \in 0..(Min(nG, nT - 1) - 1)}
    \cup {<<nG - 1 - i, nG + 1 + i, 1, "backward">> :
             i \in 0..(Min(nG, nT - (nG + 1)) - 1)}
    \cup {<<nG - 1 - i, nG + 2 + i, 2, "backward">> :
             i \in 0..(Min(nG, nT - (nG + 2)) - 1)}

\* the pattern the specification lists for 4 GPUs and 10 timesteps
DefaultPattern4x10 ==
    {<<0, 0, 1, "forward">>, <<1, 1, 1, "forward">>, <<2, 2, 1, "forward">>,
     <<3, 3, 1, "forward">>,
     <<0, 1, 2, "forward">>, <<1, 2, 2, "forward">>, <<2, 3, 2, "forward">>,
     <<3, 4, 2, "forward">>,
     <<3, 5, 1, "backward">>, <<2, 6, 1, "backward">>, <<1, 7, 1, "backward">>,
     <<0, 8, 1, "backward">>,
     <<3, 6, 2, "backward">>, <<2, 7, 2, "backward">>, <<1, 8, 2, "backward">>,
     <<0, 9, 2, "backward">>}

\* C11: createDefaultGrid(numGPUs, numTimesteps) returns, without throwing, a
\* grid of exactly numGPUs rows of numTimesteps cells whose populated cells are
\* exactly the four diagonals 1/forward at (i,i), 2/forward at (i,i+1),
\* 1/backward at (numGPUs-1-i, numGPUs+1+i) and 2/backward at
\* (numGPUs-1-i, numGPUs+2+i), each for i below the minimum of numGPUs and the
\* timesteps left from its start; every cell of the pattern lies inside the
\* grid.  For (4,10), the grid of the state after construction included, the
\* populated cells are the sixteen the specification lists.
C11_DefaultGridPattern ==
    /\ call.fn = "createDefaultGrid" =>
          LET nG == call.args[1]
              nT == call.args[2]
              grid == call.ret
          IN  /\ grid # TypeError
              /\ Rectangular(grid, nG, nT)
              /\ WellFormed(grid)
              /\ PopulatedOf(grid) = DefaultPattern(nG, nT)
              /\ \A c \in DefaultPattern(nG, nT) :
                    c[1] \in 0..(nG - 1) /\ c[2] \in 0..(nT - 1)
              /\ call.args = <<4, 10>> => PopulatedOf(grid) = DefaultPattern4x10
    /\ (lastOp.op = "init" /\ numGPUs = InitGPUs /\ numTimesteps = InitTimesteps) =>
          /\ Rectangular(gridData, 4, 10)
          /\ PopulatedOf(gridData) = DefaultPattern4x10

\* createDefaultGrid has returned a grid too narrow for its backward diagonals,
\* of which the first is cut short and the second does not fit at all
C11_Witness ==
    /\ call.fn = "createDefaultGrid"
    /\ call.args[1] > 1
    /\ call.args[2] = call.args[1] + 2
    /\ \E c \in PopulatedOf(call.ret) : c[4] = "backward"
    /\ \A c \in PopulatedOf(call.ret) : c[4] = "backward" => c[3] = 1

\* the text is hsl(H, S%, L%) with H, S and L decimal integers
CommasOf(color) == {i \in 1..Len(color) : color[i] = ","}
FirstComma(color) == CHOOSE i \in CommasOf(color) : \A j \in CommasOf(color) : i <= j
LastComma(color) == CHOOSE i \in CommasOf(color) : \A j \in CommasOf(color) : j <= i
HueText(color) == SubSeq(color, 5, FirstComma(color) - 1)
SaturationText(color) == SubSeq(color, FirstComma(color) + 2, LastComma(color) - 2)
LightnessText(color) == SubSeq(color, LastComma(color) + 2, Len(color) - 2)
IsHsl(color) ==
    /\ Len(color) >= 14
    /\ SubSeq(color, 1, 4) = <<"h", "s", "l", "(">>
    /\ Cardinality(CommasOf(color)) = 2
    /\ color[FirstComma(color) + 1] = " "
    /\ color[LastComma(color) - 1] = "%"
    /\ color[LastComma(color) + 1] = " "
    /\ SubSeq(color, Len(color) - 1, Len(color)) = <<"%", ")">>
    /\ ~isNaN(Number(HueText(color)))
    /\ ~isNaN(Number(SaturationText(color)))
    /\ ~isNaN(Number(LightnessText(color)))
HueOf(color) == Number(HueText(color)).num
SaturationOf(color) == Number(SaturationText(color)).num
LightnessOf(color) == Number(LightnessText(color)).num

\* getColorForBatch has been called with the batch number b, b > 0
ColourCallOf(b) ==
    /\ call.fn = "getColorForBatch"
    /\ call.args[1] = <<b>>
    /\ b > 0
\* the colour of the call has the hue of a smaller positive batch number
RepeatsSmaller(b) ==
    \E k \in 1..(b - 1) :
        HueOf(getColorForBatch(<<k>>, call.args[2])) = HueOf(call.ret)
\* the colour of a positive batch number b has the hue (120 + (b-1)*50) mod 360,
\* which is in 0..359
HueIsFormula ==
    \A b \in 1..(MaxBatch + 1) :
        ColourCallOf(b) =>
            /\ IsHsl(call.ret)
            /\ HueOf(call.ret) = (120 + (b - 1) * 50) % 360
            /\ HueOf(call.ret) \in 0..359

\* C12 (as claimed): the hue of batch id b is (120 + (b-1)*50) mod 360, in
\* 0..359 for every positive b, and every batch id b >= 8 has the hue of some
\* smaller positive batch id.
C12_HueRepeatsFrom8 ==
    /\ HueIsFormula
    /\ \A b \in 8..(MaxBatch + 1) : ColourCallOf(b) => RepeatsSmaller(b)

\* C12 (amended): the hue of batch id b is (120 + (b-1)*50) mod 360, in 0..359
\* for every positive b; the batch ids 1..36 have pairwise different hues, and
\* every batch id b >= 37 has the hue of the smaller batch id b - 36.
C12_HueRepeatsFrom37 ==
    /\ HueIsFormula
    /\ \A b \in 1..36 : ColourCallOf(b) => ~RepeatsSmaller(b)
    /\ \A b \in 37..(MaxBatch + 1) :
          ColourCallOf(b) =>
              /\ RepeatsSmaller(b)
              /\ HueOf(getColorForBatch(<<b - 36>>, call.args[2])) = HueOf(call.ret)

\* the colour of batch id 44 has been computed: its hue, 110, has wrapped past
\* 360 and is that of batch id 8
C12_Witness ==
    /\ ColourCallOf(44)
    /\ HueOf(call.ret) = 110
    /\ HueOf(getColorForBatch(<<8>>, call.args[2])) = 110

\* the other pass type
OtherPass(pass) == IF pass = <<"forward">> THEN <<"backward">> ELSE <<"forward">>
\* the text of a colour up to its lightness
UpToLightness(color) == SubSeq(color, 1, LastComma(color) + 1)

\* C13: the colour of (batch id b, pass type) has saturation 70 and lightness
\* 40 for forward and 60 for backward, whatever the toggle of App is set to;
\* the colours of (b, forward) and (b, backward) have the same hue and the
\* same saturation and differ in lightness only.
C13_ColourByPass ==
    (call.fn = "getColorForBatch" /\ call.args[1] # null /\ call.args[2] # null) =>
        LET other == getColorForBatch(call.args[1], OtherPass(call.args[2])) IN
        /\ IsHsl(call.ret)
        /\ SaturationOf(call.ret) = 70
        /\ LightnessOf(call.ret) = IF call.args[2] = <<"forward">> THEN 40 ELSE 60
        /\ IsHsl(other)
        /\ HueOf(other) = HueOf(call.ret)
        /\ SaturationOf(other) = SaturationOf(call.ret)
        /\ UpToLightness(other) = UpToLightness(call.ret)
        /\ LightnessOf(other) # LightnessOf(call.ret)
        /\ LightnessOf(other) + LightnessOf(call.ret) = 100

\* the backward colour of a batch id has been computed while the toggle is
\* set to forward
C13_Witness ==
    /\ call.fn = "getColorForBatch"
    /\ call.args = <<(<<2>>), (<<"backward">>)>>
    /\ passType = "forward"
    /\ LightnessOf(call.ret) = 60
    /\ HueOf(call.ret) = 170

\* the positions of the grid whose cell has no value
AbsentPositions ==
    UNION {{<<g, t>> : t \in {u \in DOMAIN gridData[g] : gridData[g][u].value = null}} :
              g \in DOMAIN gridData}

\* C14: in every reachable state blankCount, the calculateBlankCount of the
\* current grid, is the number of cells whose value is absent, so that it and
\* the number of populated cells add up to numGPUs * numTimesteps; for a grid
\* with no populated cell it is numGPUs * numTimesteps.
C14_BlankCountIsAbsent ==
    /\ blankCount = Cardinality(AbsentPositions)
    /\ blankCount + Cardinality(PopulatedPositions) = numGPUs * numTimesteps
    /\ PopulatedPositions = {} => blankCount = numGPUs * numTimesteps

\* an edit has emptied the last populated cell of a grid of several cells
C14_Witness ==
    /\ lastOp.op = "cell"
    /\ Populated(prev.gridData[lastOp.gpuIdx][lastOp.timeIdx])
    /\ PopulatedPositions = {}
    /\ numGPUs * numTimesteps > 1
    /\ blankCount = numGPUs * numTimesteps

\* C15: createEmptyGrid(numGPUs, numTimesteps) returns a grid of exactly
\* numGPUs rows, each of exactly numTimesteps cells, every cell with its value
\* absent and its pass type absent.
C15_EmptyGridShape ==
    call.fn = "createEmptyGrid" =>
        LET nG == call.args[1]
            nT == call.args[2]
            grid == call.ret
        IN  /\ Length(grid) = nG
            /\ DOMAIN grid = 0..(nG - 1)
            /\ \A g \in DOMAIN grid :
                  /\ Length(grid[g]) = nT
                  /\ DOMAIN grid[g] = 0..(nT - 1)
                  /\ \A t \in DOMAIN grid[g] :
                        grid[g][t].value = null /\ grid[g][t].passType = null
            /\ Cardinality(Positions(grid)) = nG * nT

\* createEmptyGrid has returned the largest grid, 50 rows of 100 cells
C15_Witness ==
    /\ call.fn = "createEmptyGrid"
    /\ call.args = <<MaxGPUs, MaxTimesteps>>
    /\ Length(call.ret) = 50
    /\ Length(call.ret[49]) = 100
    /\ FullyEmpty(call.ret[49][99])

\* C16: a cell edit at (g,t) leaves the occupancy of every other row and the
\* occupancy of row g at every time before t as they were; in every reachable
\* state the occupancy at time t is in 0..t+1 and differs from the occupancy at
\* time t-1 of the same row by at most 1.
C16_EditMovesLaterOccupancyOnly ==
    /\ lastOp.op = "cell" =>
          /\ DOMAIN memoryUsage = DOMAIN prev.memoryUsage
          /\ \A r \in DOMAIN memoryUsage :
                IF r # lastOp.gpuIdx
                THEN memoryUsage[r] = prev.memoryUsage[r]
                ELSE /\ DOMAIN memoryUsage[r] = DOMAIN prev.memoryUsage[r]
                     /\ \A u \in DOMAIN memoryUsage[r] :
                           u < lastOp.timeIdx => memoryUsage[r][u] = prev.memoryUsage[r][u]
    /\ \A r \in DOMAIN memoryUsage : \A u \in DOMAIN memoryUsage[r] :
          /\ memoryUsage[r][u] \in 0..(u + 1)
          /\ u > 0 => /\ memoryUsage[r][u] - memoryUsage[r][u - 1] <= 1
                      /\ memoryUsage[r][u - 1] - memoryUsage[r][u] <= 1

\* an edit after time 0 has changed the occupancy of its row from its time on,
\* while the row was occupied before that time and another row is occupied
C16_Witness ==
    /\ lastOp.op = "cell"
    /\ lastOp.timeIdx > 0
    /\ memoryUsage[lastOp.gpuIdx][lastOp.timeIdx]
           # prev.memoryUsage[lastOp.gpuIdx][lastOp.timeIdx]
    /\ memoryUsage[lastOp.gpuIdx][lastOp.timeIdx - 1] > 0
    /\ \E r \in DOMAIN memoryUsage : \E u \in DOMAIN memoryUsage[r] :
          r # lastOp.gpuIdx /\ memoryUsage[r][u] > 0

\* the indices of the edges that start from, and that end at, the cell p
EdgesOutOf(p) == {i \in 1..Len(edges) : EdgeFrom(edges[i]) = p}
EdgesInto(p) == {i \in 1..Len(edges) : EdgeTo(edges[i]) = p}

\* C17: the edges of each batch id form one simple chain over all its cells:
\* every edge goes from a populated cell to a different populated cell of the
\* same batch id that is strictly later in (time, GPU) order; every populated
\* cell is the source of at most one edge and the target of at most one edge;
\* every batch id has exactly one cell no edge ends at; and the number of
\* edges is the number of populated cells minus the number of batch ids.
C17_EdgesFormChains ==
    LET cells == PopulatedPositions
        ids == BatchIdsOf(cells)
    IN  /\ \A i \in 1..Len(edges) :
              LET from == EdgeFrom(edges[i])
                  to == EdgeTo(edges[i])
              IN  /\ from \in cells
                  /\ to \in cells
                  /\ Joins(edges[i], from, to)
                  /\ from # to
                  /\ Before(from, to)
                  /\ gridData[from[1]][from[2]].value = gridData[to[1]][to[2]].value
        /\ \A p \in cells :
              /\ Cardinality(EdgesOutOf(p)) <= 1
              /\ Cardinality(EdgesInto(p)) <= 1
        /\ \A b \in ids :
              Cardinality({p \in CellsOfBatch(cells, b) : EdgesInto(p) = {}}) = 1
        /\ Len(edges) = Cardinality(cells) - Cardinality(ids)

\* an edit has left three batch ids, one of them with two cells at the same
\* time that an edge joins from the lower GPU to the higher one
C17_Witness ==
    /\ lastOp.op = "cell"
    /\ Cardinality(BatchIdsOf(PopulatedPositions)) >= 3
    /\ Len(edges) >= 3
    /\ \E i \in 1..Len(edges) :
          /\ EdgeFrom(edges[i])[2] = EdgeTo(edges[i])[2]
          /\ EdgeFrom(edges[i])[1] < EdgeTo(edges[i])[1]

====
